---- MODULE Spec2Model ----
(***************************************************************************)
(* Model of the documentation updater back end:                            *)
(*   fastapi_backend/app/file_service.py  (FileService)                    *)
(*   fastapi_backend/app/ai_service.py    (AIService)                      *)
(*                                                                         *)
(* Text is a sequence of one-character strings.  A file of the            *)
(* documentation tree that apply_suggestions mutates is a record           *)
(* [base, appended]: its original text and the comment blocks appended to  *)
(* it, in order (the only mutation the code makes is content + comment).   *)
(***************************************************************************)
EXTENDS Integers, Sequences, FiniteSets, TLC

VARIABLES
    files,        \* docs_root: relative path -> content, for the files that exist
    backupDir,    \* backup_dir: backup file name -> content
    now,          \* the wall clock, in ticks of 1/TicksPerSecond second
    pc,           \* "idle" | "applying": position of the apply_suggestions call
    batch,        \* the suggestions argument of the running call
    idx,          \* index of the next suggestion of the for loop
    results,      \* the results dict of the running call
    raised,       \* history: the exceptions raised during the running call, each
                  \* [step, msg, at]: "backup" | "mutate", str(e), index in errors
    calls,        \* completed calls: [batch, results, faulted], oldest first
    backupLog     \* history: [name, content] per backup taken, content being what
                  \* the target held right before its mutation

VARIABLES
    docContent,   \* the text handed to _extract_sections
    sections,     \* what _extract_sections returned for it
    extracted     \* whether _extract_sections has run

VARIABLES
    corpus,       \* the readable *.md files under docs_root: [path, content], in scan order
    query,        \* the query handed to find_relevant_sections
    ranked,       \* what find_relevant_sections returned
    rankDone      \* whether find_relevant_sections has run

VARIABLES
    client,       \* whether AIService.client is set (an API key is configured)
    reply,        \* what the client did when invoked: [raised, content]
    modelCalls,   \* how often the client was invoked
    context,      \* the context string _build_context made for the prompt
    parsed,       \* what _parse_suggestions returned during the call
    suggestions,  \* what generate_doc_suggestions returned
    outcome       \* generate_doc_suggestions: "pending" (not called), "calling" (the
                  \* client is being invoked), "returned" or "raised" (how it ended)

applyVars == <<files, backupDir, now, pc, batch, idx, results, raised, calls, backupLog>>
extractVars == <<docContent, sections, extracted>>

rankVars == <<corpus, query, ranked, rankDone>>

synthVars == <<client, reply, modelCalls, context, parsed, suggestions, outcome>>

vars == <<applyVars, extractVars, rankVars, synthVars>>

----------------------------------------------------------------------------
(* Bounds *)

MaxSuggestions == 3  \* suggestions handed to apply_suggestions, over all calls
MaxTime == 3         \* last clock tick
TicksPerSecond == 2  \* clock ticks within one second of the timestamp format

----------------------------------------------------------------------------
(* Paths, suggestions *)

\* A relative path is <<directory, stem, suffix>>; None (no file_path) is <<>>.
NoPath == <<>>
ReadmeA == <<"a/", "README", ".md">>
ReadmeB == <<"b/", "README", ".md">>
Missing == <<"", "missing", ".md">>

ExistingPaths == {ReadmeA, ReadmeB}

Suggestion(i, sec, p) ==
    [id |-> i, section |-> sec, suggestion |-> "text", file_path |-> p]

SuggestionPool ==
    { Suggestion(1, "Install", ReadmeA), Suggestion(2, "Usage", ReadmeB),
      Suggestion(3, "General", NoPath), Suggestion(4, "Usage", Missing) }

RECURSIVE SeqsUpTo(_, _)
SeqsUpTo(S, n) ==
    IF n = 0 THEN { <<>> }
    ELSE LET shorter == SeqsUpTo(S, n - 1)
         IN  shorter \cup { Append(q, x) : q \in { r \in shorter : Len(r) = n - 1 }, x \in S }

Batches(n) == SeqsUpTo(SuggestionPool, n) \ { <<>> }

\* str(e) of the exception the file system raises
ExcMessages == { "Permission denied" }

EmptyResults == [success |-> <<>>, errors |-> <<>>, backups |-> <<>>]

InitialContent(p) == [base |-> p[1], appended |-> <<>>]

----------------------------------------------------------------------------
(* Text: str operations the code uses *)

Min(a, b) == IF a <= b THEN a ELSE b

\* str.isspace() / the regex class \s, over the characters of the model
IsSpace(c) == c \in {" ", "\n", "\t"}

\* sub in text
IsInfix(sub, text) ==
    \E k \in 0..(Len(text) - Len(sub)) : SubSeq(text, k + 1, k + Len(sub)) = sub

\* text.find(c) as a 1-based index, 0 when c is not in text
Find(text, c) ==
    IF \E k \in 1..Len(text) : text[k] = c
    THEN CHOOSE k \in 1..Len(text) : text[k] = c /\ \A j \in 1..(k - 1) : text[j] # c
    ELSE 0

\* text.strip()
Strip(text) ==
    LET keep == { k \in 1..Len(text) : ~IsSpace(text[k]) }
    IN  IF keep = {} THEN <<>>
        ELSE SubSeq(text, CHOOSE k \in keep : \A j \in keep : k <= j,
                          CHOOSE k \in keep : \A j \in keep : k >= j)

\* text.split(sep) for a one-character sep: always at least one piece
RECURSIVE SplitOn(_, _)
SplitOn(text, sep) ==
    LET k == Find(text, sep)
    IN  IF k = 0 THEN << text >>
        ELSE << SubSeq(text, 1, k - 1) >> \o SplitOn(SubSeq(text, k + 1, Len(text)), sep)

\* sep.join(parts)
RECURSIVE Join(_, _)
Join(parts, sep) ==
    IF parts = <<>> THEN <<>>
    ELSE IF Len(parts) = 1 THEN parts[1]
    ELSE parts[1] \o sep \o Join(Tail(parts), sep)

\* str.lower(), over the letters of the model
LowerChar(c) ==
    CASE c = "A" -> "a" [] c = "P" -> "p" [] c = "I" -> "i" [] c = "U" -> "u"
      [] c = "T" -> "t" [] c = "H" -> "h" [] c = "G" -> "g" [] c = "S" -> "s"
      [] c = "E" -> "e" [] OTHER -> c

Lower(text) == [k \in 1..Len(text) |-> LowerChar(text[k])]

----------------------------------------------------------------------------
(* FileService: _extract_sections *)

MaxHeaderLevel == 6  \* the {1,6} of the header pattern

\* The ways r"^(#{1,6})\s+(.+)$" can match a line: <<h, w>> with h '#', then w
\* whitespace characters, then at least one more character, up to the end
HeaderSplits(line) ==
    { hw \in (1..MaxHeaderLevel) \X (1..Len(line)) :
        /\ hw[1] + hw[2] < Len(line)
        /\ \A k \in 1..hw[1] : line[k] = "#"
        /\ \A k \in (hw[1] + 1)..(hw[1] + hw[2]) : IsSpace(line[k]) }

\* header_match is not None
HeaderMatch(line) == HeaderSplits(line) # {}

\* The match re.match returns: every quantifier is greedy, so the longest run of
\* '#' that lets the rest match, then the longest run of whitespace
HeaderGroups(line) ==
    LET S == HeaderSplits(line)
        h == CHOOSE x \in { hw[1] : hw \in S } : \A y \in { hw[1] : hw \in S } : x >= y
        w == CHOOSE x \in { hw[2] : hw \in { g \in S : g[1] = h } } :
                 \A y \in { hw[2] : hw \in { g \in S : g[1] = h } } : x >= y
    IN  [hashes |-> h, text |-> SubSeq(line, h + w + 1, Len(line))]

\* current_section = {"title": ..., "level": ..., "start_line": i, "content": "", "end_line": None}
NewSection(line, i) ==
    [title |-> Strip(HeaderGroups(line).text), level |-> HeaderGroups(line).hashes,
     start_line |-> i, content |-> <<>>, end_line |-> 0]

\* current_section["content"] = "\n".join(current_content).strip(); ["end_line"] = last
CloseSectionEndsLate(sec, body, last) ==
    [sec EXCEPT !.content = Strip(Join(body, <<"\n">>)), !.end_line = last + 1]

CloseSection(sec, body, last) ==
    [sec EXCEPT !.content = Strip(Join(body, <<"\n">>)), !.end_line = last]

\* The for loop over enumerate(lines, 1) and the statement after it.  cur is <<>>
\* for current_section = None and << section >> otherwise.
RECURSIVE ExtractLoop(_, _, _, _, _)
ExtractLoop(lines, i, secs, cur, body) ==
    IF i > Len(lines)
    THEN IF cur # <<>> THEN Append(secs, CloseSection(cur[1], body, Len(lines))) ELSE secs
    ELSE IF HeaderMatch(lines[i])
         THEN ExtractLoop(lines, i + 1,
                  IF cur # <<>> THEN Append(secs, CloseSection(cur[1], body, i - 1)) ELSE secs,
                  << NewSection(lines[i], i) >>, <<>>)
         ELSE ExtractLoop(lines, i + 1, secs, cur, Append(body, lines[i]))

ExtractSections(text) == ExtractLoop(SplitOn(text, "\n"), 1, <<>>, <<>>, <<>>)

\* Documents
MaxContent == 6      \* characters of a generated document

ContentAlphabet == {"#", " ", "a", "\n"}

RECURSIVE Hashes(_)
Hashes(n) == IF n = 0 THEN <<>> ELSE <<"#">> \o Hashes(n - 1)

Heading(n, title) == Hashes(n) \o <<" ">> \o title

\* A preface, then headings of every level 1-6 interleaved with body text, then a
\* line of seven '#'
AllLevelsDoc ==
    Join(<< <<"a">>, Heading(1, <<"a">>), <<"a", " ", "a">>, Heading(2, <<"a", "a">>),
            Heading(3, <<"a">>), <<>>, <<"a">>, Heading(4, <<"a">>), <<"a">>,
            Heading(5, <<"a">>), <<"a">>, Heading(6, <<"a">>), <<"a">>,
            Heading(7, <<"a">>), <<"a">> >>, <<"\n">>)

Contents == SeqsUpTo(ContentAlphabet, MaxContent) \cup { AllLevelsDoc }

ExtractIdle ==
    /\ docContent = <<>>
    /\ sections = <<>>
    /\ extracted = FALSE

InitExtract ==
    /\ docContent \in Contents
    /\ sections = <<>>
    /\ extracted = FALSE

\* sections = self._extract_sections(content)
Extract ==
    /\ ~extracted
    /\ sections' = ExtractSections(docContent)
    /\ extracted' = TRUE
    /\ UNCHANGED docContent

----------------------------------------------------------------------------
(* FileService: get_documentation_files, find_relevant_sections *)

TopK == 10           \* relevant_sections[:10]

\* text.split(): the maximal runs of non-whitespace characters
RECURSIVE SplitWords(_)
SplitWords(text) ==
    IF text = <<>> THEN <<>>
    ELSE IF IsSpace(text[1]) THEN SplitWords(Tail(text))
    ELSE LET ends == { k \in 1..Len(text) : IsSpace(text[k]) }
             stop == IF ends = {} THEN Len(text) + 1
                     ELSE CHOOSE k \in ends : \A j \in ends : k <= j
         IN  << SubSeq(text, 1, stop - 1) >> \o SplitWords(SubSeq(text, stop, Len(text)))

\* One entry per file that rglob("*.md") yields, in the order it yields them
FileInfo(doc) ==
    [path |-> doc.path, name |-> << doc.path[2], doc.path[3] >>, content |-> doc.content,
     sections |-> ExtractSections(doc.content), size |-> Len(doc.content)]

GetDocumentationFiles(docs) == [k \in 1..Len(docs) |-> FileInfo(docs[k])]

\* section_text = f"{section['title']} {section['content']}".lower()
SectionText(section) == Lower(section.title \o <<" ">> \o section.content)

\* sum(1 for keyword in keywords if keyword in section_text)
RECURSIVE RelevanceScore(_, _)
RelevanceScore(keywords, text) ==
    IF keywords = <<>> THEN 0
    ELSE (IF IsInfix(keywords[1], text) THEN 1 ELSE 0) + RelevanceScore(Tail(keywords), text)

\* The inner for loop: the sections of one file, from the k-th on
RECURSIVE SectionLoop(_, _, _, _)
SectionLoop(fileInfo, k, keywords, relevant) ==
    IF k > Len(fileInfo.sections) THEN relevant
    ELSE LET section == fileInfo.sections[k]
             score == RelevanceScore(keywords, SectionText(section))
         IN  SectionLoop(fileInfo, k + 1, keywords,
                 IF score > 0
                 THEN Append(relevant, [file_path |-> fileInfo.path, section |-> section,
                                        relevance_score |-> score, content |-> fileInfo.content])
                 ELSE relevant)

\* The outer for loop: the files, from the k-th on
RECURSIVE FileLoop(_, _, _, _)
FileLoop(fileInfos, k, keywords, relevant) ==
    IF k > Len(fileInfos) THEN relevant
    ELSE FileLoop(fileInfos, k + 1, keywords, SectionLoop(fileInfos[k], 1, keywords, relevant))

\* (an insertion that puts x before the items of equal score)
InsertByScoreBeforeTies(sorted, x) ==
    LET before == { k \in 1..Len(sorted) : sorted[k].relevance_score > x.relevance_score }
    IN  SubSeq(sorted, 1, Cardinality(before)) \o << x >>
            \o SubSeq(sorted, Cardinality(before) + 1, Len(sorted))

\* list.sort is stable, with reverse=True too: x goes after every item whose
\* score is at least its own
InsertByScore(sorted, x) ==
    LET before == { k \in 1..Len(sorted) : sorted[k].relevance_score >= x.relevance_score }
    IN  SubSeq(sorted, 1, Cardinality(before)) \o << x >>
            \o SubSeq(sorted, Cardinality(before) + 1, Len(sorted))

\* relevant_sections.sort(key=lambda x: x["relevance_score"], reverse=True)
RECURSIVE SortByScore(_, _)
SortByScore(items, sorted) ==
    IF items = <<>> THEN sorted
    ELSE SortByScore(Tail(items), InsertByScore(sorted, items[1]))

FindRelevantSections(q, docs) ==
    LET keywords == SplitWords(Lower(q))
        relevant == FileLoop(GetDocumentationFiles(docs), 1, keywords, <<>>)
        sorted == SortByScore(relevant, <<>>)
    IN  SubSeq(sorted, 1, Min(TopK, Len(sorted)))

\* Corpora and queries
MaxDocs == 4         \* documentation files under docs_root

DocStem(k) == CASE k = 1 -> "doc1" [] k = 2 -> "doc2" [] k = 3 -> "doc3"
                [] k = 4 -> "doc4" [] k = 5 -> "doc5" [] k = 6 -> "doc6" [] OTHER -> "docN"

DocPath(k) == << "", DocStem(k), ".md" >>

\* a preface; "Api" over "auth" ; "Use" over "api"; "Tip" over nothing
SampleDocA ==
    Join(<< <<"a", "p", "i">>, Heading(1, <<"A", "p", "i">>), <<"a", "u", "t", "h">>,
            Heading(2, <<"U", "s", "e">>), <<"a", "p", "i">>,
            Heading(2, <<"T", "i", "p">>) >>, <<"\n">>)

\* "Auth" ; "Api" over "AUTH" ; "Hi" over "the api"
SampleDocB ==
    Join(<< Heading(1, <<"A", "u", "t", "h">>),
            Heading(2, <<"A", "p", "i">>), <<"A", "U", "T", "H">>,
            Heading(3, <<"H", "i">>), <<"t", "h", "e", " ", "a", "p", "i">> >>, <<"\n">>)

\* no heading at all
SampleDocC == <<"a", "p", "i", " ", "a", "u", "t", "h">>

SampleDocs == { SampleDocA, SampleDocB, SampleDocC }

Corpora ==
    { [k \in 1..Len(cs) |-> [path |-> DocPath(k), content |-> cs[k]]] :
        cs \in SeqsUpTo(SampleDocs, MaxDocs) }

Queries ==
    { <<"a", "p", "i", " ", "a", "u", "t", "h">>, <<"A", "P", "I", " ", " ", "a", "p", "i">>,
      <<"h">>, <<"u", "s", "e", "\n", "h", "i">>, <<"i", "a">>, <<>> }

RankIdle ==
    /\ corpus = <<>>
    /\ query = <<>>
    /\ ranked = <<>>
    /\ rankDone = FALSE

InitRank ==
    /\ corpus \in Corpora
    /\ query \in Queries
    /\ ranked = <<>>
    /\ rankDone = FALSE

\* ranked = file_service.find_relevant_sections(query)
Rank ==
    /\ ~rankDone
    /\ ranked' = FindRelevantSections(query, corpus)
    /\ rankDone' = TRUE
    /\ UNCHANGED <<corpus, query>>

----------------------------------------------------------------------------
(* FileService: apply_suggestions *)

\* datetime.now().strftime("%Y%m%d_%H%M%S"): the clock truncated to whole seconds
Timestamp(t) == t \div TicksPerSecond

\* f"{file_path.stem}_{timestamp}{file_path.suffix}" under backup_dir: the
\* directory part of the path is dropped
BackupName(p, t) == <<p[2], Timestamp(t), p[3]>>

\* shutil.copy2(file_path, backup_path): creates or overwrites backup_path
CopyFile(dir, name, content) ==
    [n \in (DOMAIN dir) \cup {name} |-> IF n = name THEN content ELSE dir[n]]

\* _apply_suggestion_to_content: content + comment
ApplySuggestionToContent(content, s, t) ==
    [content EXCEPT !.appended =
        Append(@, [ts |-> Timestamp(t), section |-> s.section, suggestion |-> s.suggestion])]

\* write_text that fails after opening the file for writing leaves it truncated
Truncated == [base |-> "", appended |-> <<>>]

NoFilePathError(s) == [suggestion_id |-> s.id, error |-> <<"No file path specified">>]

FileNotFoundErrorNoPath(s) == [suggestion_id |-> s.id, error |-> <<"File not found">>]

\* "error": f"File not found: {file_path}"
FileNotFoundError(s) == [suggestion_id |-> s.id, error |-> <<"File not found: ">> \o s.file_path]

\* except Exception as e: ... "error": str(e)
ExceptionError(s, msg) == [suggestion_id |-> s.id, error |-> <<msg>>]

ApplyFailedErrorWithMessage(s, msg) == [suggestion_id |-> s.id, error |-> <<msg>>]

\* _apply_single_suggestion swallows the exception and returns False; the caller
\* records a fixed text
ApplyFailedError(s, msg) == [suggestion_id |-> s.id, error |-> <<"Failed to apply suggestion">>]

SuccessEntry(s) ==
    [suggestion_id |-> s.id, file_path |-> s.file_path, message |-> "Successfully applied"]

AddError(res, e) == [res EXCEPT !.errors = Append(@, e)]
AddSuccess(res, e) == [res EXCEPT !.success = Append(@, e)]
AddBackup(res, name) == [res EXCEPT !.backups = Append(@, name)]

\* if not file_path
NoFilePath(s) == s.file_path = NoPath

\* full_path.exists()
Exists(p) == p \in DOMAIN files

RECURSIVE SumLen(_)
SumLen(cs) == IF cs = <<>> THEN 0 ELSE Len(cs[1].batch) + SumLen(Tail(cs))

\* how many suggestions the callers have handed over so far
Submitted == SumLen(calls) + (IF pc = "applying" THEN Len(batch) ELSE 0)

ApplyIdle ==
    /\ files = [p \in ExistingPaths |-> InitialContent(p)]
    /\ backupDir = <<>>
    /\ now = 0
    /\ pc = "idle"
    /\ batch = <<>>
    /\ idx = 1
    /\ results = EmptyResults
    /\ raised = <<>>
    /\ calls = <<>>
    /\ backupLog = <<>>

\* time passes
Tick ==
    /\ now < MaxTime
    /\ now' = now + 1
    /\ UNCHANGED <<files, backupDir, pc, batch, idx, results, raised, calls, backupLog>>
    /\ UNCHANGED <<extractVars, rankVars, synthVars>>

\* apply_suggestions is entered: results = {"success": [], "errors": [], "backups": []}
ApplyStart ==
    /\ pc = "idle"
    /\ Submitted < MaxSuggestions
    /\ \E b \in Batches(MaxSuggestions - Submitted) : batch' = b
    /\ pc' = "applying"
    /\ idx' = 1
    /\ results' = EmptyResults
    /\ raised' = <<>>
    /\ UNCHANGED <<files, backupDir, now, calls, backupLog>>
    /\ UNCHANGED <<extractVars, rankVars, synthVars>>

\* one iteration of the for loop: no file path
ApplyNoPath ==
    /\ pc = "applying" /\ idx <= Len(batch)
    /\ NoFilePath(batch[idx])
    /\ results' = AddError(results, NoFilePathError(batch[idx]))
    /\ idx' = idx + 1
    /\ UNCHANGED <<files, backupDir, now, pc, batch, raised, calls, backupLog>>
    /\ UNCHANGED <<extractVars, rankVars, synthVars>>

\* (break where the code has continue)
ApplyNotFoundBreak ==
    /\ pc = "applying" /\ idx <= Len(batch)
    /\ ~NoFilePath(batch[idx])
    /\ ~Exists(batch[idx].file_path)
    /\ results' = AddError(results, FileNotFoundError(batch[idx]))
    /\ idx' = Len(batch) + 1
    /\ UNCHANGED <<files, backupDir, now, pc, batch, raised, calls, backupLog>>
    /\ UNCHANGED <<extractVars, rankVars, synthVars>>

\* one iteration of the for loop: the file does not exist
ApplyNotFound ==
    /\ pc = "applying" /\ idx <= Len(batch)
    /\ ~NoFilePath(batch[idx])
    /\ ~Exists(batch[idx].file_path)
    /\ results' = AddError(results, FileNotFoundError(batch[idx]))
    /\ idx' = idx + 1
    /\ UNCHANGED <<files, backupDir, now, pc, batch, raised, calls, backupLog>>
    /\ UNCHANGED <<extractVars, rankVars, synthVars>>

\* one iteration of the for loop: _create_backup raises (the copy cannot be made)
ApplyBackupFails ==
    /\ pc = "applying" /\ idx <= Len(batch)
    /\ ~NoFilePath(batch[idx])
    /\ Exists(batch[idx].file_path)
    /\ \E msg \in ExcMessages :
         /\ results' = AddError(results, ExceptionError(batch[idx], msg))
         /\ raised' = Append(raised, [step |-> "backup", msg |-> msg, at |-> Len(results'.errors)])
    /\ idx' = idx + 1
    /\ UNCHANGED <<files, backupDir, now, pc, batch, calls, backupLog>>
    /\ UNCHANGED <<extractVars, rankVars, synthVars>>

\* one iteration of the for loop: backup made, suggestion appended to the file
ApplyWritten ==
    /\ pc = "applying" /\ idx <= Len(batch)
    /\ ~NoFilePath(batch[idx])
    /\ Exists(batch[idx].file_path)
    /\ LET s == batch[idx]
           p == s.file_path
           name == BackupName(p, now)
       IN  /\ backupDir' = CopyFile(backupDir, name, files[p])
           /\ backupLog' = Append(backupLog, [name |-> name, content |-> files[p]])
           /\ files' = [files EXCEPT ![p] = ApplySuggestionToContent(@, s, now)]
           /\ results' = AddSuccess(AddBackup(results, name), SuccessEntry(s))
    /\ idx' = idx + 1
    /\ UNCHANGED <<now, pc, batch, raised, calls>>
    /\ UNCHANGED <<extractVars, rankVars, synthVars>>

\* one iteration of the for loop: backup made, then read_text or write_text raises
\* inside _apply_single_suggestion
ApplyWriteFails ==
    /\ pc = "applying" /\ idx <= Len(batch)
    /\ ~NoFilePath(batch[idx])
    /\ Exists(batch[idx].file_path)
    /\ LET s == batch[idx]
           p == s.file_path
           name == BackupName(p, now)
       IN  /\ backupDir' = CopyFile(backupDir, name, files[p])
           /\ backupLog' = Append(backupLog, [name |-> name, content |-> files[p]])
           /\ \E truncates \in BOOLEAN :
                files' = IF truncates THEN [files EXCEPT ![p] = Truncated] ELSE files
           /\ \E msg \in ExcMessages :
                /\ results' = AddError(AddBackup(results, name), ApplyFailedError(s, msg))
                /\ raised' = Append(raised,
                        [step |-> "mutate", msg |-> msg, at |-> Len(results'.errors)])
    /\ idx' = idx + 1
    /\ UNCHANGED <<now, pc, batch, calls>>
    /\ UNCHANGED <<extractVars, rankVars, synthVars>>

\* return results
ApplyReturn ==
    /\ pc = "applying" /\ idx > Len(batch)
    /\ calls' = Append(calls, [batch |-> batch, results |-> results, faulted |-> raised # <<>>])
    /\ pc' = "idle"
    /\ UNCHANGED <<files, backupDir, now, batch, idx, results, raised, backupLog>>
    /\ UNCHANGED <<extractVars, rankVars, synthVars>>

----------------------------------------------------------------------------
(* AIService.  The text of a model response is a sequence of lexemes: the      *)
(* characters "[", "]", ",", ".", "-", " ", "\n", digits, the word "w" (a run   *)
(* of letters) and "{A}", "{U}", "{F}" (each the text of a JSON object).        *)

None == <<>>

IsDigit(c) == c \in {"0", "1", "2", "3", "4", "5", "6", "7", "8", "9"}

\* the index after the run of whitespace that starts at i
SkipSpace(t, i) ==
    CHOOSE j \in i..(Len(t) + 1) :
        /\ \A k \in i..(j - 1) : IsSpace(t[k])
        /\ j = Len(t) + 1 \/ ~IsSpace(t[j])

\* the index after the run of digits that starts at i
SkipDigits(t, i) ==
    CHOOSE j \in i..(Len(t) + 1) :
        /\ \A k \in i..(j - 1) : IsDigit(t[k])
        /\ j = Len(t) + 1 \/ ~IsDigit(t[j])

\* the JSON object a "{...}" lexeme spells
IsObjectText(c) == c \in {"{A}", "{U}", "{F}"}

\* "{A}": section "Api", no file_path; "{U}": section "USE", no file_path;
\* "{F}": section "Api" and a file_path
ObjectOf(c) ==
    [id |-> 1,
     section |-> IF c = "{U}" THEN <<"U", "S", "E">> ELSE <<"A", "p", "i">>,
     suggestion |-> <<"w">>,
     file_path |-> IF c = "{F}" THEN <<"", "other", ".md">> ELSE None,
     line_number |-> None]

JsonFail == [ok |-> FALSE, next |-> 0, val |-> [kind |-> "none"]]

JsonOk(n, v) == [ok |-> TRUE, next |-> n, val |-> v]

\* -?digits(.digits)? at i
JsonNumber(t, i) ==
    LET s == IF t[i] = "-" THEN i + 1 ELSE i
        e == SkipDigits(t, s)
        f == IF e <= Len(t) /\ t[e] = "." /\ SkipDigits(t, e + 1) > e + 1
             THEN SkipDigits(t, e + 1) ELSE e
    IN  IF e = s THEN JsonFail
        ELSE JsonOk(f, [kind |-> "number", text |-> SubSeq(t, i, f - 1)])

\* json's scanner: a value that starts at lexeme i, and, for an array, its items
\* from lexeme i on
RECURSIVE JsonValue(_, _), JsonItems(_, _, _)
JsonValue(t, i) ==
    IF i > Len(t) THEN JsonFail
    ELSE IF t[i] = "["
    THEN LET j == SkipSpace(t, i + 1)
         IN  IF j > Len(t) THEN JsonFail
             ELSE IF t[j] = "]" THEN JsonOk(j + 1, [kind |-> "array", items |-> <<>>])
             ELSE JsonItems(t, j, <<>>)
    ELSE IF IsObjectText(t[i]) THEN JsonOk(i + 1, ObjectOf(t[i]))
    ELSE IF t[i] = "-" \/ IsDigit(t[i]) THEN JsonNumber(t, i)
    ELSE JsonFail

JsonItems(t, i, acc) ==
    LET v == JsonValue(t, i)
        k == SkipSpace(t, v.next)
    IN  IF ~v.ok THEN JsonFail
        ELSE IF k > Len(t) THEN JsonFail
        ELSE IF t[k] = "]" THEN JsonOk(k + 1, [kind |-> "array", items |-> Append(acc, v.val)])
        ELSE IF t[k] = "," THEN JsonItems(t, SkipSpace(t, k + 1), Append(acc, v.val))
        ELSE JsonFail

\* json.loads(text): one value, whitespace around it, nothing else
JsonLoads(t) ==
    LET v == JsonValue(t, SkipSpace(t, 1))
    IN  IF v.ok /\ SkipSpace(t, v.next) > Len(t) THEN v ELSE JsonFail

\* re.search(r"\[.*\]", content, re.DOTALL): from the first "[" to the last "]"
\* after it
HasJsonMatch(t) == \E i, j \in 1..Len(t) : i < j /\ t[i] = "[" /\ t[j] = "]"

JsonMatch(t) ==
    LET i == Find(t, "[")
        j == CHOOSE k \in 1..Len(t) : t[k] = "]" /\ \A m \in (k + 1)..Len(t) : t[m] # "]"
    IN  SubSeq(t, i, j)

\* _get_fallback_suggestions(query)
GetFallbackSuggestions(q) ==
    << [id |-> 1, section |-> <<"G", "e", "n", "e", "r", "a", "l">>,
        suggestion |-> <<"Review and update documentation based on: ">> \o q,
        file_path |-> <<"", "README", ".md">>, line_number |-> None],
       [id |-> 2, section |-> <<"U", "s", "a", "g", "e">>,
        suggestion |-> <<"Update usage examples and code snippets to reflect the changes mentioned in the query.">>,
        file_path |-> <<"docs/", "usage", ".md">>, line_number |-> None] >>

GeneralUpdate == <<"general update">>

\* line.startswith(("1.", "2.", "3.", "4.", "5.")) or line.startswith("-")
IsMarkerLine(line) ==
    \/ Len(line) >= 2 /\ line[1] \in {"1", "2", "3", "4", "5"} /\ line[2] = "."
    \/ Len(line) >= 1 /\ line[1] = "-"

\* line[line.find(".") + 1:].strip() if "." in line else line[1:].strip()
MarkerBody(line) ==
    IF Find(line, ".") # 0
    THEN Strip(SubSeq(line, Find(line, ".") + 1, Len(line)))
    ELSE Strip(SubSeq(line, 2, Len(line)))

\* The for loop of _parse_text_suggestions and the statement after it.  cur is
\* <<>> for current_suggestion = None and << suggestion >> otherwise.
RECURSIVE TextLoop(_, _, _, _)
TextLoop(lines, i, suggs, cur) ==
    IF i > Len(lines) THEN suggs \o cur
    ELSE LET line == Strip(lines[i])
         IN  IF IsMarkerLine(line)
             THEN TextLoop(lines, i + 1, suggs \o cur,
                      << [id |-> Len(suggs \o cur) + 1,
                          section |-> <<"G", "e", "n", "e", "r", "a", "l">>,
                          suggestion |-> MarkerBody(line),
                          file_path |-> None, line_number |-> None] >>)
             ELSE IF cur # <<>> /\ line # <<>>
             THEN TextLoop(lines, i + 1, suggs,
                      << [cur[1] EXCEPT !.suggestion = @ \o <<" ">> \o line] >>)
             ELSE TextLoop(lines, i + 1, suggs, cur)

\* _parse_text_suggestions(content)
ParseTextSuggestions(t) ==
    LET suggs == TextLoop(SplitOn(t, "\n"), 1, <<>>, <<>>)
    IN  IF suggs # <<>> THEN suggs ELSE GetFallbackSuggestions(GeneralUpdate)

\* _parse_suggestions(content): the decoded array as it is; the canned set when
\* json.loads raises; the text parser when the pattern finds nothing
ParseSuggestions(t) ==
    IF HasJsonMatch(t)
    THEN IF JsonLoads(JsonMatch(t)).ok
         THEN JsonLoads(JsonMatch(t)).val.items
         ELSE GetFallbackSuggestions(GeneralUpdate)
    ELSE ParseTextSuggestions(t)

\* a JSON value that is a dict
IsDict(v) == "id" \in DOMAIN v

ContextLimit == 5    \* relevant_sections[:5]
ContextChars == 200  \* section['content'][:200]

\* relevant_sections[:5]
ContextItems(relevant) == SubSeq(relevant, 1, Min(ContextLimit, Len(relevant)))

\* the four lines _build_context makes of one item
ContextParts(item) ==
    << <<"File: ">> \o item.file_path,
       <<"Section: ">> \o item.section.title,
       <<"Content: ">>
           \o SubSeq(item.section.content, 1, Min(ContextChars, Len(item.section.content)))
           \o <<"...">>,
       <<"---">> >>

RECURSIVE ContextLoop(_, _, _)
ContextLoop(items, k, parts) ==
    IF k > Len(items) THEN parts
    ELSE ContextLoop(items, k + 1, parts \o ContextParts(items[k]))

\* _build_context(relevant_sections)
BuildContext(relevant) ==
    IF relevant = <<>> THEN <<>>
    ELSE Join(ContextLoop(ContextItems(relevant), 1, <<>>), <<"\n">>)

\* (section_to_file with the first item of a title kept)
SectionToFileFirstWins(relevant, title) ==
    LET hits == { k \in 1..Len(relevant) : Lower(relevant[k].section.title) = title }
    IN  IF hits = {} THEN None
        ELSE relevant[CHOOSE k \in hits : \A j \in hits : k <= j].file_path

\* section_to_file: lower-cased title -> file path, a later item replacing an
\* earlier one of the same title
SectionToFile(relevant, title) ==
    LET hits == { k \in 1..Len(relevant) : Lower(relevant[k].section.title) = title }
    IN  IF hits = {} THEN None
        ELSE relevant[CHOOSE k \in hits : \A j \in hits : k >= j].file_path

\* _enhance_suggestions_with_files(suggestions, relevant_sections); suggestion.get
\* raises for an item that is no dict
EnhanceSuggestionsWithFiles(suggs, relevant) ==
    IF \E k \in 1..Len(suggs) : ~IsDict(suggs[k])
    THEN [raised |-> TRUE, value |-> <<>>]
    ELSE [raised |-> FALSE,
          value |-> [k \in 1..Len(suggs) |->
              IF /\ SectionToFile(relevant, Lower(suggs[k].section)) # None
                 /\ suggs[k].file_path = None
              THEN [suggs[k] EXCEPT !.file_path = SectionToFile(relevant, Lower(suggs[k].section))]
              ELSE suggs[k]]]

\* The try block from the client's invocation on: what it returns or that it
\* raised, and what _parse_suggestions returned in it.  relevant is what
\* find_relevant_sections(query) returned and r what the client did.
TryBody(relevant, r) ==
    IF r.raised
    THEN [raised |-> TRUE, value |-> <<>>, parsed |-> <<>>]
    ELSE LET p == ParseSuggestions(r.content)
             e == EnhanceSuggestionsWithFiles(p, relevant)
         IN  [raised |-> e.raised, value |-> e.value, parsed |-> p]

\* (the try block without its except clause)
CompleteUncaught(q, relevant, r) == TryBody(relevant, r)

\* try: ... except Exception: return self._get_fallback_suggestions(query)
Complete(q, relevant, r) ==
    LET t == TryBody(relevant, r)
    IN  IF t.raised THEN [t EXCEPT !.raised = FALSE, !.value = GetFallbackSuggestions(q)]
        ELSE t

\* Model responses
MaxResponse == 4     \* lexemes of a model response

ResponseAlphabet == {"[", "]", ",", "1", ".", "-", " ", "\n", "w", "{A}"}

NoReply == [raised |-> FALSE, content |-> <<>>]

\* longer answers: JSON arrays of several objects
SampleResponses ==
    { <<"[", "{U}", ",", "{F}", "]">>,
      <<"[", "{A}", ",", " ", "{U}", ",", "{F}", "]">>,
      <<"[", "{F}", ",", "{A}", "]", "\n">> }

\* what the client does when invoked: raise, or answer with a text
ModelReplies ==
    { [raised |-> TRUE, content |-> <<>>] }
        \cup { [raised |-> FALSE, content |-> t] :
                   t \in SeqsUpTo(ResponseAlphabet, MaxResponse) \cup SampleResponses }

SynthCorpora ==
    { <<>>,
      [k \in 1..3 |-> [path |-> DocPath(k),
                       content |-> IF k = 3 THEN SampleDocA ELSE SampleDocB]] }

SynthQueries == { <<"a", "p", "i", " ", "a", "u", "t", "h">>, <<"h">> }

SynthIdle ==
    /\ client = FALSE
    /\ reply = NoReply
    /\ modelCalls = 0
    /\ context = <<>>
    /\ parsed = <<>>
    /\ suggestions = <<>>
    /\ outcome = "pending"

InitSynth ==
    /\ client \in BOOLEAN
    /\ corpus \in SynthCorpora
    /\ query \in SynthQueries
    /\ ranked = <<>>
    /\ rankDone = FALSE
    /\ reply = NoReply
    /\ modelCalls = 0
    /\ context = <<>>
    /\ parsed = <<>>
    /\ suggestions = <<>>
    /\ outcome = "pending"

\* generate_doc_suggestions(query) is called and there is no client: the canned
\* set is returned at once
GenerateWithoutClient ==
    /\ outcome = "pending"
    /\ ~client
    /\ suggestions' = GetFallbackSuggestions(query)
    /\ outcome' = "returned"
    /\ UNCHANGED <<client, reply, modelCalls, context, parsed, corpus, query, ranked, rankDone>>

\* generate_doc_suggestions(query) is called and there is a client: the relevant
\* sections are looked up, the prompt is built and the client is invoked
GenerateInvokesClient ==
    /\ outcome = "pending"
    /\ client
    /\ ranked' = FindRelevantSections(query, corpus)
    /\ rankDone' = TRUE
    /\ context' = BuildContext(ranked')
    /\ modelCalls' = modelCalls + 1
    /\ outcome' = "calling"
    /\ UNCHANGED <<client, reply, parsed, suggestions, corpus, query>>

\* the client's invocation raises or returns a text; the rest of the try block
\* and the except clause run
GenerateCompletes ==
    /\ outcome = "calling"
    /\ \E r \in ModelReplies :
          LET g == Complete(query, ranked, r)
          IN  /\ reply' = r
              /\ parsed' = g.parsed
              /\ suggestions' = g.value
              /\ outcome' = IF g.raised THEN "raised" ELSE "returned"
    /\ UNCHANGED <<client, modelCalls, context, corpus, query, ranked, rankDone>>

----------------------------------------------------------------------------
(* Specifications *)

NextApply ==
    \/ Tick
    \/ ApplyStart
    \/ ApplyNoPath
    \/ ApplyNotFound
    \/ ApplyBackupFails
    \/ ApplyWritten
    \/ ApplyWriteFails
    \/ ApplyReturn

InitApply == ApplyIdle /\ ExtractIdle /\ RankIdle /\ SynthIdle

SpecApply == InitApply /\ [][NextApply]_vars

\* the section extractor on its own
NextExtract == Extract /\ UNCHANGED <<applyVars, rankVars, synthVars>>

InitExtractOnly == ApplyIdle /\ InitExtract /\ RankIdle /\ SynthIdle

SpecExtract == InitExtractOnly /\ [][NextExtract]_vars

\* the relevance ranker on its own
NextRank == Rank /\ UNCHANGED <<applyVars, extractVars, synthVars>>

InitRankOnly == ApplyIdle /\ ExtractIdle /\ InitRank /\ SynthIdle

SpecRank == InitRankOnly /\ [][NextRank]_vars

\* the suggestion synthesizer on its own
NextSynth ==
    \/ GenerateWithoutClient /\ UNCHANGED <<applyVars, extractVars>>
    \/ GenerateInvokesClient /\ UNCHANGED <<applyVars, extractVars>>
    \/ GenerateCompletes /\ UNCHANGED <<applyVars, extractVars>>

InitSynthOnly == ApplyIdle /\ ExtractIdle /\ InitSynth

SpecSynth == InitSynthOnly /\ [][NextSynth]_vars

----------------------------------------------------------------------------
(* Properties of apply_suggestions *)

\* C1: every path listed in a result's backups holds the content its target file
\* had right before the mutation made for that suggestion, and no later backup
\* overwrites or removes it.
C1_BackupsHoldPreMutationContent ==
    \A k \in 1..Len(backupLog) :
        /\ backupLog[k].name \in DOMAIN backupDir
        /\ backupDir[backupLog[k].name] = backupLog[k].content

\* C2: two apply calls with the same single suggestion on the same existing file,
\* neither hitting an I/O error, give two distinct backup files and two appends
\* each recorded as success, whatever the time between the calls.
C2_TwoAppliesTwoBackups ==
    \A i, j \in 1..Len(calls) :
        ( /\ i < j
          /\ calls[i].batch = calls[j].batch
          /\ Len(calls[i].batch) = 1
          /\ Exists(calls[i].batch[1].file_path)
          /\ ~calls[i].faulted /\ ~calls[j].faulted )
        => /\ Len(calls[i].results.success) = 1 /\ Len(calls[j].results.success) = 1
           /\ Len(calls[i].results.backups) = 1 /\ Len(calls[j].results.backups) = 1
           /\ calls[i].results.backups[1] # calls[j].results.backups[1]

\* success and errs are, in order, the entries of the suggestions of b: each
\* suggestion has exactly one entry, in one of the two lists
RECURSIVE IsMergeOf(_, _, _)
IsMergeOf(b, success, errs) ==
    IF b = <<>> THEN success = <<>> /\ errs = <<>>
    ELSE \/ /\ success # <<>>
            /\ success[1].suggestion_id = b[1].id
            /\ success[1].file_path = b[1].file_path
            /\ IsMergeOf(Tail(b), Tail(success), errs)
         \/ /\ errs # <<>>
            /\ errs[1].suggestion_id = b[1].id
            /\ IsMergeOf(Tail(b), success, Tail(errs))

\* bk names, in order, backups of files of suggestions of b
RECURSIVE BackupsInOrder(_, _)
BackupsInOrder(b, bk) ==
    IF bk = <<>> THEN TRUE
    ELSE /\ b # <<>>
         /\ \/ /\ b[1].file_path # NoPath
               /\ bk[1][1] = b[1].file_path[2]
               /\ bk[1][3] = b[1].file_path[3]
               /\ BackupsInOrder(Tail(b), Tail(bk))
            \/ BackupsInOrder(Tail(b), bk)

OneEntryEachInOrder(b, r) ==
    /\ Len(r.success) + Len(r.errors) = Len(b)
    /\ IsMergeOf(b, r.success, r.errors)
    /\ BackupsInOrder(b, r.backups)

\* C3: every suggestion of a batch is processed, also after earlier ones failed:
\* each yields exactly one entry in success or errors, and success, errors and
\* backups follow the input order.
C3_OneEntryPerSuggestionInOrder ==
    /\ pc = "applying" => OneEntryEachInOrder(SubSeq(batch, 1, idx - 1), results)
    /\ \A k \in 1..Len(calls) : OneEntryEachInOrder(calls[k].batch, calls[k].results)

\* a finished call of three suggestions whose first failed and whose later ones
\* were processed, one of them with success
C3_Witness ==
    \E k \in 1..Len(calls) :
        /\ Len(calls[k].batch) = 3
        /\ Len(calls[k].results.errors) = 2
        /\ calls[k].results.errors[1].suggestion_id = calls[k].batch[1].id
        /\ Len(calls[k].results.success) = 1
        /\ calls[k].results.success[1].suggestion_id = calls[k].batch[3].id

\* C4: a suggestion with no file_path, or whose file does not exist, adds exactly
\* one error entry ("No file path specified", or a text containing the path), no
\* success entry and no backup, and changes no documentation file and no backup.
C4_RejectedSuggestionTouchesNothing ==
    [][ ( /\ pc = "applying"
          /\ idx <= Len(batch)
          /\ idx' = idx + 1
          /\ \/ batch[idx].file_path = NoPath
             \/ batch[idx].file_path \notin DOMAIN files )
        => /\ Len(results'.errors) = Len(results.errors) + 1
           /\ SubSeq(results'.errors, 1, Len(results.errors)) = results.errors
           /\ results'.errors[Len(results'.errors)].suggestion_id = batch[idx].id
           /\ IF batch[idx].file_path = NoPath
              THEN results'.errors[Len(results'.errors)].error = <<"No file path specified">>
              ELSE IsInfix(batch[idx].file_path, results'.errors[Len(results'.errors)].error)
           /\ results'.success = results.success
           /\ results'.backups = results.backups
           /\ files' = files
           /\ backupDir' = backupDir ]_vars

\* a finished call that rejected a suggestion without file_path and one whose
\* file is missing
C4_Witness ==
    \E k \in 1..Len(calls) :
        /\ \E i \in 1..Len(calls[k].batch) : calls[k].batch[i].file_path = NoPath
        /\ \E i \in 1..Len(calls[k].batch) : calls[k].batch[i].file_path = Missing
        /\ Len(calls[k].results.errors) = Len(calls[k].batch)
        /\ calls[k].results.backups = <<>>

\* C10 as claimed: the error entry of a suggestion whose backup or mutation step
\* raised carries the exception's message.
C10_ErrorCarriesExceptionMessage ==
    \A k \in 1..Len(raised) : results.errors[raised[k].at].error = << raised[k].msg >>

\* C10 as the code has it: an exception of the backup step is recorded with its
\* message, one of the mutation step with the fixed text "Failed to apply
\* suggestion", the backup staying listed.
C10_MutationErrorIsFixedText ==
    \A k \in 1..Len(raised) :
        IF raised[k].step = "mutate"
        THEN /\ results.errors[raised[k].at].error = << "Failed to apply suggestion" >>
             /\ results.backups # <<>>
        ELSE results.errors[raised[k].at].error = << raised[k].msg >>

\* a call during which the mutation step raised, and the backup step too
C10_Witness ==
    /\ \E k \in 1..Len(raised) : raised[k].step = "mutate"
    /\ \E k \in 1..Len(raised) : raised[k].step = "backup"

----------------------------------------------------------------------------
(* Properties of _extract_sections *)

LineCount == Cardinality({ k \in 1..Len(docContent) : docContent[k] = "\n" }) + 1

DocLines == SplitOn(docContent, "\n")

\* C8: the sections are ordered by start line, contiguous and non-overlapping,
\* the last one ends at the line count, their ranges and the lines before the
\* first heading cover every line exactly once, and a document with no heading
\* has no section.
C8_SectionsPartitionLines ==
    extracted =>
        LET n == Len(sections) IN
        /\ \A k \in 1..n :
              /\ 1 <= sections[k].start_line
              /\ sections[k].start_line <= sections[k].end_line
              /\ sections[k].end_line <= LineCount
        /\ \A k \in 1..(n - 1) : sections[k].end_line + 1 = sections[k + 1].start_line
        /\ n > 0 => sections[n].end_line = LineCount
        /\ \A ln \in 1..LineCount :
              Cardinality({ k \in 1..n : sections[k].start_line <= ln /\ ln <= sections[k].end_line })
                = IF n > 0 /\ ln >= sections[1].start_line THEN 1 ELSE 0
        /\ n > 0 => HeaderMatch(DocLines[sections[1].start_line])
        /\ (\A ln \in 1..Len(DocLines) : ~HeaderMatch(DocLines[ln])) => n = 0

\* a document with a preface and headings of every level
C8_Witness ==
    /\ extracted
    /\ Len(sections) >= MaxHeaderLevel
    /\ sections[1].start_line > 1
    /\ { sections[k].level : k \in 1..Len(sections) } = 1..MaxHeaderLevel

\* 1-6 '#' followed by whitespace only
BlankHeading(line) ==
    \E h \in 1..MaxHeaderLevel :
        /\ Len(line) > h
        /\ \A k \in 1..h : line[k] = "#"
        /\ \A k \in (h + 1)..Len(line) : IsSpace(line[k])

\* C9: a line of 1-6 '#' followed only by whitespace opens no section, and
\* every section has a non-empty title.
C9_BlankHeadingOpensNoSection ==
    extracted =>
        /\ \A k \in 1..Len(sections) : sections[k].title # <<>>
        /\ \A ln \in 1..Len(DocLines) :
              BlankHeading(DocLines[ln]) =>
                  \A k \in 1..Len(sections) : sections[k].start_line # ln

----------------------------------------------------------------------------
(* Properties of find_relevant_sections *)

\* every section of the corpus, in encounter order: document order, then section
\* order within the document
RECURSIVE AllSectionsFrom(_, _)
AllSectionsFrom(docs, k) ==
    IF k > Len(docs) THEN <<>>
    ELSE LET secs == ExtractSections(docs[k].content)
         IN  [j \in 1..Len(secs) |-> [file_path |-> docs[k].path, section |-> secs[j]]]
                 \o AllSectionsFrom(docs, k + 1)

\* how many keywords of the query, with multiplicity, occur in the lower-cased
\* title or body of the section
KeywordHits(q, section) ==
    LET kw == SplitWords(Lower(q))
    IN  Cardinality({ k \in 1..Len(kw) :
            IsInfix(kw[k], Lower(section.title)) \/ IsInfix(kw[k], Lower(section.content)) })

\* C7: the result is the first 10 of the sections of score > 0 in descending
\* order of score, ties in corpus encounter order, the score being the number
\* of query keywords (with multiplicity) found in the section; so it has at most
\* 10 entries, none of score 0, and scores never increase.
C7_TopTenStableByScore ==
    rankDone =>
        LET all == AllSectionsFrom(corpus, 1)
            sc(k) == KeywordHits(query, all[k].section)
            pos == { k \in 1..Len(all) : sc(k) > 0 }
            rank(k) == 1 + Cardinality({ j \in pos : sc(j) > sc(k) \/ (sc(j) = sc(k) /\ j < k) })
        IN  /\ Len(ranked) = Min(TopK, Cardinality(pos))
            /\ \A k \in pos :
                  rank(k) <= TopK =>
                      /\ ranked[rank(k)].file_path = all[k].file_path
                      /\ ranked[rank(k)].section = all[k].section
                      /\ ranked[rank(k)].relevance_score = sc(k)
            /\ Len(ranked) <= TopK
            /\ \A i \in 1..Len(ranked) : ranked[i].relevance_score > 0
            /\ \A i \in 1..(Len(ranked) - 1) :
                  ranked[i].relevance_score >= ranked[i + 1].relevance_score

\* more than 10 sections score, with equal and with different scores among those
\* returned, equal ones coming from different documents
C7_Witness ==
    /\ rankDone
    /\ Len(ranked) = TopK
    /\ Cardinality({ k \in 1..Len(AllSectionsFrom(corpus, 1)) :
            KeywordHits(query, AllSectionsFrom(corpus, 1)[k].section) > 0 }) > TopK
    /\ ranked[1].relevance_score > ranked[TopK].relevance_score
    /\ \E i \in 1..(TopK - 1) :
          /\ ranked[i].relevance_score = ranked[i + 1].relevance_score
          /\ ranked[i].file_path # ranked[i + 1].file_path

----------------------------------------------------------------------------
(* Properties of generate_doc_suggestions *)

\* the two canned suggestions: ids 1 and 2, for README.md and docs/usage.md
IsFallbackSet(s) ==
    /\ Len(s) = 2
    /\ s[1].id = 1 /\ s[1].file_path = <<"", "README", ".md">>
    /\ s[2].id = 2 /\ s[2].file_path = <<"docs/", "usage", ".md">>

\* C5: generate_doc_suggestions never raises; without a client it returns the
\* two canned suggestions and never invokes a model, and with a client whose
\* invocation raises it returns the same two.
C5_NeverRaisesFallsBack ==
    /\ outcome # "raised"
    /\ (outcome = "returned" /\ ~client) => IsFallbackSet(suggestions) /\ modelCalls = 0
    /\ (outcome = "returned" /\ client /\ reply.raised) => IsFallbackSet(suggestions)

\* the client was invoked, raised, and the call returned
C5_Witness ==
    /\ outcome = "returned"
    /\ client
    /\ modelCalls = 1
    /\ reply.raised

\* C6: a response with a "[" ... "]" span that does not decode as JSON is parsed
\* by the text parser, as a response without such a span is; the canned set
\* comes back only if the text parser finds no suggestion.
C6_UndecodableArrayParsedAsText ==
    ( /\ outcome = "returned"
      /\ client
      /\ ~reply.raised
      /\ HasJsonMatch(reply.content)
      /\ ~JsonLoads(JsonMatch(reply.content)).ok )
    => parsed = ParseTextSuggestions(reply.content)

----------------------------------------------------------------------------
(* Properties of the post-processing of the suggestions *)

\* generate_doc_suggestions returned what _enhance_suggestions_with_files made
\* of the parsed suggestions
Enhanced ==
    /\ outcome = "returned"
    /\ client
    /\ ~reply.raised
    /\ \A k \in 1..Len(parsed) : IsDict(parsed[k])

\* the items whose section title is, case-insensitively, the section of the
\* k-th parsed suggestion
TitleHits(items, k) ==
    { j \in 1..Len(items) : Lower(items[j].section.title) = Lower(parsed[k].section) }

\* the k-th suggestion came back as it was parsed
Untouched(k) == suggestions[k] = parsed[k]

\* the k-th suggestion came back with the file path of the last of the items
\* that carry its section title, and is otherwise as parsed
FilledFrom(items, k) ==
    \E j \in TitleHits(items, k) :
        /\ \A i \in TitleHits(items, k) : i <= j
        /\ suggestions[k] = [parsed[k] EXCEPT !.file_path = items[j].file_path]

\* C11 (as stated): a suggestion without a file_path is given one only from the
\* sections of the prompt context, the first five ranked ones; one whose section
\* matches only a section ranked sixth to tenth stays without, and one that has
\* a file_path is returned unchanged.
C11_PathOnlyFromContextSections ==
    Enhanced =>
        /\ Len(suggestions) = Len(parsed)
        /\ \A k \in 1..Len(parsed) :
              IF parsed[k].file_path # None \/ TitleHits(ContextItems(ranked), k) = {}
              THEN Untouched(k)
              ELSE FilledFrom(ContextItems(ranked), k)

\* C11 (amended): a suggestion without a file_path is given the one of the last
\* of all ranked sections, up to ten, that carry its section title; one whose
\* section matches no ranked section stays without, and one that has a file_path
\* is returned unchanged.
C11_PathFromAnyRankedSection ==
    Enhanced =>
        /\ Len(suggestions) = Len(parsed)
        /\ \A k \in 1..Len(parsed) :
              IF parsed[k].file_path # None \/ TitleHits(ranked, k) = {}
              THEN Untouched(k)
              ELSE FilledFrom(ranked, k)

\* a suggestion whose section is only that of a section ranked after the fifth
\* came back with a file path, next to one that had a file path and kept it
C11_Witness ==
    /\ Enhanced
    /\ \E k \in 1..Len(parsed) :
          /\ parsed[k].file_path = None
          /\ TitleHits(ContextItems(ranked), k) = {}
          /\ TitleHits(ranked, k) # {}
          /\ suggestions[k].file_path # None
    /\ \E k \in 1..Len(parsed) :
          /\ parsed[k].file_path # None
          /\ TitleHits(ranked, k) # {}
          /\ suggestions[k].file_path = parsed[k].file_path

----------------------------------------------------------------------------
(* Properties of the text parser *)

\* the response had no "[" ... "]" span, so _parse_text_suggestions parsed it
TextParsed ==
    /\ outcome = "returned"
    /\ client
    /\ ~reply.raised
    /\ ~HasJsonMatch(reply.content)

\* the lines of the response, each stripped
ReplyLines ==
    LET lines == SplitOn(reply.content, "\n")
    IN  [i \in 1..Len(lines) |-> Strip(lines[i])]

MarkerLines == { i \in 1..Len(ReplyLines) : IsMarkerLine(ReplyLines[i]) }

\* the n-th of the marker lines, and the line after the last that belongs to it
NthMarker(n) == CHOOSE i \in MarkerLines : Cardinality({ j \in MarkerLines : j <= i }) = n

NthEnd(n) == IF n < Cardinality(MarkerLines) THEN NthMarker(n + 1) ELSE Len(ReplyLines) + 1

\* what follows the marker of a marker line: "-" is one character, "1." two
AfterMarker(line) ==
    Strip(SubSeq(line, IF line[1] = "-" THEN 2 ELSE 3, Len(line)))

IsNonEmpty(line) == line # <<>>

\* the remainder of the n-th marker line and the non-empty lines up to the next
\* marker line, joined by spaces
ExpectedBody(n) ==
    Join(<< AfterMarker(ReplyLines[NthMarker(n)]) >>
             \o SelectSeq(SubSeq(ReplyLines, NthMarker(n) + 1, NthEnd(n) - 1), IsNonEmpty),
         <<" ">>)

\* C12: in the text parser every marker line ("1." to "5." or a dash) opens a
\* suggestion, the ids are 1..n in line order, the body is the whole remainder
\* of the marker line after its marker (also for a dash line with a "." later
\* in it) followed by the later non-empty non-marker lines, space-joined, and
\* the lines before the first marker line are dropped.
C12_BodyIsRemainderAfterMarker ==
    (TextParsed /\ MarkerLines # {}) =>
        /\ Len(parsed) = Cardinality(MarkerLines)
        /\ \A n \in 1..Len(parsed) :
              /\ parsed[n].id = n
              /\ parsed[n].suggestion = ExpectedBody(n)

====
